---- MODULE Spec2Model ----
(***************************************************************************)
(* Model of Tribal_Knowledge/generate_dummy_data.py: the synthetic         *)
(* language-distribution generator (select_languages and                   *)
(* generate_dummy_data); and of tribal_knowledge/repo_crawler.py: the      *)
(* pool of GitHubRepositoryInfoExtractor and PandasOutputFormat.transform. *)
(*                                                                         *)
(* Numbers.  Weights (base_probs, probs, affinity scores) are fixed-point  *)
(* integers in units of 1/One, so the literal 1 of the clamp is One.       *)
(* Prominences are in units of 1/(One*One), so that prominence ** 0.5 is   *)
(* an integer square root; the sampled prominences are perfect squares.    *)
(* A numpy array is a sequence (index 0 of the code is index 1 here).      *)
(***************************************************************************)
EXTENDS Integers, Sequences, FiniteSets

\* ------------------------------------------------------------------ bounds

\* Largest catalog (number of languages) the inputs are drawn with.
MaxLangs == 3

\* Largest num_projects and max_repos the inputs are drawn with.
MaxProjects == 2
MaxRepos == 2

\* Size of a generate_dummy_data input: catalog size plus the largest number
\* of repositories it can produce (num_projects * max_repos).
MaxSize == 4

\* Denominator of the coarse grid the Dirichlet proportions are sampled from.
CoarseDen == 3

\* --------------------------------------------------------------- constants

\* The literal 1 of max(min(probs[i], 1), 0), in fixed-point units.
One == 10

\* random.randint(500_000, 10_000_000)
MinRepoBytes == 500000
MaxRepoBytes == 10000000

\* projects['Project_0'] = {'Repo_1': {"Lua": 30_000_000}}
Project0Bytes == 30000000

\* ---------------------------------------------------------------- helpers

Min(a, b) == IF a <= b THEN a ELSE b
Max(a, b) == IF a >= b THEN a ELSE b

RECURSIVE SumSeq(_)
\* probs.sum()
SumSeq(s) == IF s = <<>> THEN 0 ELSE Head(s) + SumSeq(Tail(s))

\* A pop that reads the element and leaves it in the list.
PopAtKeep(s, i) == s

\* remaining_languages.pop(chosen_index): the list without its element i
PopAt(s, i) == SubSeq(s, 1, i - 1) \o SubSeq(s, i + 1, Len(s))

\* np.delete(probs, chosen_index): the array without its element i
DeleteAt(s, i) == SubSeq(s, 1, i - 1) \o SubSeq(s, i + 1, Len(s))

Range(s) == {s[i] : i \in 1..Len(s)}

\* ----------------------------------------------------------- input samples

\* Catalog names, in the insertion order of the languages_prominence dict.
LangNames == <<"A", "B", "C", "D", "E">>

Catalog(n) == SubSeq(LangNames, 1, n)

\* Sampled prominences (units 1/(One*One)): 0, 0.25 and 4.
ProminenceValues == {0, 25, 400}

\* Sampled affinity scores (units 1/One): -0.5 and +0.5.
AffinityValues == {0 - 5, 5}

\* prominence ** 0.5
SqrtFix(p) == CHOOSE w \in 0..p : w * w <= p /\ (w + 1) * (w + 1) > p

WeightValues == {SqrtFix(p) : p \in ProminenceValues}

\* The affinity dict of dicts built from a map of (selected, other) pairs.
AffinityTable(f) ==
    LET rows == {pr[1] : pr \in DOMAIN f}
    IN  [s \in rows |-> [l \in {pr[2] : pr \in {q \in DOMAIN f : q[1] = s}} |-> f[<<s, l>>]]]

\* Sampled affinity tables over the names of a catalog: at most two entries.
AffinityTables(names) ==
    LET pairs == {pr \in names \X names : pr[1] # pr[2]}
        keys  == {k \in SUBSET pairs : Cardinality(k) <= 2}
    IN  UNION {{AffinityTable(f) : f \in [k -> AffinityValues]} : k \in keys}

\* Sampled values of mean_languages.
MeanValues == {0, 4}

\* Sampled outcomes of random.randint(500_000, 10_000_000): both ends.
RepoBytesSamples == {MinRepoBytes, MaxRepoBytes}

\* Denominator of the fine grid: finer than one byte of the largest budget.
FineDen == 2 * MaxRepoBytes

\* Sampled outcomes of np.random.dirichlet(alpha) for len(alpha) = k: vectors
\* of k positive fractions num[i]/den that sum to 1.  The coarse grid holds
\* every such vector of denominator CoarseDen; the fine grid holds the vectors
\* that give all but one language the share 1/FineDen.
DirichletSamples(k) ==
    IF k = 1 THEN {[num |-> <<1>>, den |-> 1]}
    ELSE {[num |-> s, den |-> CoarseDen] :
             s \in {t \in [1..k -> 1..CoarseDen] : SumSeq(t) = CoarseDen}}
         \cup
         {[num |-> [i \in 1..k |-> IF i = j THEN FineDen - (k - 1) ELSE 1], den |-> FineDen] :
             j \in 1..k}

\* ------------------------------------------------------------------- state

VARIABLES
    pc,                  \* position: "start", "project", "repo", "select", "returned", "raised"
    caller,              \* the function the run entered: "select_languages" or "generate_dummy_data"
    error,               \* the exception that ended the run ("" when none)
    \* generate_dummy_data: arguments and locals
    num_projects,
    min_repos,
    max_repos,
    mean_languages,
    languages_prominence, \* language -> prominence; its keys are a prefix of LangNames
    projects,            \* project number -> sequence of repositories, each a
                         \* sequence of [lang, bytes] in insertion order
    p,                   \* loop variable of the projects loop (0 before the loop)
    r,                   \* loop variable of the repositories loop
    num_repos,           \* np.random.randint(min_repos, max_repos + 1)
    total_repo_bytes,
    alpha,
    lang_proportions,
    \* select_languages: arguments and locals
    languages,
    base_probs,          \* language -> base weight
    num_languages,
    affinities,          \* the affinities argument (language_affinities of the module)
    selected_languages,
    remaining_languages,
    probs,
    draws,               \* iterations of the for loop of select_languages done
    last_draw,           \* what the latest iteration saw: its inputs and the chosen index
    \* the seeded generator np.random and the runs of the process
    run,                 \* 0: a single run; 1, 2: the first and second of two runs
    np_tape,             \* the outcomes the seed fixes, as far as the first run drew them
    np_pos,              \* draws made from np.random since np.random.seed(42)
    first_run,           \* how the first of two runs ended
    \* GitHubRepositoryInfoExtractor (tribal_knowledge/repo_crawler.py)
    main,                \* the thread that owns the extractor: "body" (inside the with
                         \* block), "collect" (in the loop of fetch_repository_details),
                         \* "unwinding" (an exception leaves the block), "exit" (in
                         \* __exit__, waiting in shutdown), "exited"
    exc,                 \* the exception in flight in the main thread ("" when none)
    shutdown,            \* the pool's shutdown flag
    max_workers,
    futures,             \* every future the pool was given, in submission order:
                         \* [repo, state, raised, result]
    future_to_repo,      \* the futures of the call in progress (indices into futures)
    yielded,             \* the futures as_completed has yielded to the loop, in order
    repository_details,  \* self.repository_details: full name -> repo_data
    repos,               \* the repos argument of the latest call
    calls,               \* calls of fetch_repository_details made
    returns,             \* calls of fetch_repository_details that returned
    \* PandasOutputFormat.transform (tribal_knowledge/repo_crawler.py)
    transform_pc,        \* "loop", "frame", "returned", "raised"
    transform_error,     \* the exception transform raised ("" when none)
    nested_row,          \* self.nested_row
    results,             \* the results argument: the items of the dict in order, each
                         \* <<full name, details>>; details are items <<key, value>>
    item,                \* items of results the loop has consumed
    data_rows,           \* rows, each the items <<column, cell>> of a dict in order
    df                   \* the DataFrame: [columns, rows]

gen_vars == <<num_projects, min_repos, max_repos, mean_languages, languages_prominence>>
gen_locals == <<projects, p, r, num_repos, total_repo_bytes, alpha, lang_proportions>>
sel_args == <<languages, num_languages>>
sel_locals == <<selected_languages, remaining_languages, probs, draws, last_draw>>
np_vars == <<np_tape, np_pos>>

generator_vars == <<pc, caller, error, gen_vars, gen_locals, base_probs, affinities, sel_args,
                    sel_locals, run, np_vars, first_run>>

pool_vars == <<shutdown, max_workers, futures>>
call_vars == <<future_to_repo, yielded, repos, calls, returns>>
crawler_vars == <<main, exc, pool_vars, call_vars, repository_details>>

transform_vars == <<transform_pc, transform_error, nested_row, results, item, data_rows, df>>

vars == <<generator_vars, crawler_vars, transform_vars>>

NoFrame == [columns |-> <<>>, rows |-> <<>>]

\* transform has not been called.
NoTransform ==
    /\ transform_pc = "" /\ transform_error = "" /\ nested_row = FALSE
    /\ results = <<>> /\ item = 0 /\ data_rows = <<>> /\ df = NoFrame

\* No extractor has been constructed.
NoCrawler ==
    /\ main = "" /\ exc = ""
    /\ shutdown = FALSE /\ max_workers = 0 /\ futures = <<>>
    /\ future_to_repo = {} /\ yielded = <<>> /\ repos = <<>> /\ calls = 0 /\ returns = 0
    /\ repository_details = <<>>

NoDraw == [chosen_index |-> 0, selected_lang |-> "", remaining |-> <<>>, probs |-> <<>>]

NoProportions == [num |-> <<>>, den |-> 1]

\* --------------------------------------------------------------- np.random

\* np.random.seed(42) fixes the outcome of every later draw as a function of
\* the draws made before it and of the call's arguments.  The first of two
\* runs writes the outcomes to the tape; the second run, seeded alike, reads
\* the same outcome wherever it makes the same call at the same position.
NpOutcomes(fn, args, support) ==
    IF /\ run = 2
       /\ np_pos < Len(np_tape)
       /\ np_tape[np_pos + 1].fn = fn
       /\ np_tape[np_pos + 1].args = args
    THEN {np_tape[np_pos + 1].out}
    ELSE support

NpAdvance(fn, args, out) ==
    /\ np_pos' = IF run = 0 THEN np_pos ELSE np_pos + 1
    /\ np_tape' = IF run = 1 THEN Append(np_tape, [fn |-> fn, args |-> args, out |-> out])
                  ELSE np_tape

\* ------------------------------------------------------- select_languages

\* A clamp that only cuts at 1: min(probs[i], 1).
ClampAbove(w) == Min(w, One)

\* max(min(probs[i], 1), 0)
Clamp(w) == Max(Min(w, One), 0)

\* The indices np.random.choice(range(len(remaining_languages)), p=...) can
\* return: those of non-zero probability.
ChoiceSupport(ps) == {i \in 1..Len(ps) : ps[i] > 0}

\* Lines 174-179: the loop over enumerate(remaining_languages) runs after the
\* pop and before np.delete(probs, chosen_index): index i of the shortened
\* list addresses probs[i] of the array that still holds the chosen entry.
AdjustProbs(ps, remaining, selected_lang, aff) ==
    [i \in 1..Len(ps) |->
        IF /\ selected_lang \in DOMAIN aff
           /\ i <= Len(remaining)
           /\ remaining[i] \in DOMAIN aff[selected_lang]
        THEN Clamp(ps[i] + aff[selected_lang][remaining[i]])
        ELSE ps[i]]

\* remaining_languages = languages (no copy): the pop acts on the caller's list.
CallerListAliased(langs, remaining) == remaining

\* Line 164: remaining_languages = languages.copy(); the pop of line 170 acts
\* on the copy and the caller's list keeps its elements.
CallerList(langs, remaining) == langs

\* Lines 163-165: the entry of select_languages.
EnterSelect(langs, count) ==
    /\ languages' = langs
    /\ num_languages' = count
    /\ selected_languages' = <<>>
    /\ remaining_languages' = langs
    /\ probs' = [i \in 1..Len(langs) |-> base_probs[langs[i]]]
    /\ draws' = 0
    /\ last_draw' = NoDraw

Raise(msg) ==
    /\ pc' = "raised"
    /\ error' = msg

\* A loop that also stops once no language remains.
LoopContinuesWhileRemaining == draws < num_languages /\ remaining_languages # <<>>

\* for _ in range(num_languages): has the loop another iteration?
LoopContinues == draws < num_languages

\* Lines 168-181: one iteration of the loop.
SelectDraw ==
    /\ pc = "select"
    /\ LoopContinues
    /\ IF Len(remaining_languages) = 0
       THEN \* np.random.choice on an empty population
            /\ Raise("ValueError: 'a' cannot be empty unless no samples are taken")
            /\ UNCHANGED <<languages, sel_locals, np_vars>>
       ELSE IF SumSeq(probs) = 0
       THEN \* probs / probs.sum() is all NaN
            /\ Raise("ValueError: probabilities contain NaN")
            /\ UNCHANGED <<languages, sel_locals, np_vars>>
       ELSE \E chosen_index \in NpOutcomes("choice", probs, ChoiceSupport(probs)) :
            LET selected_lang == remaining_languages[chosen_index]
                remaining     == PopAt(remaining_languages, chosen_index)
            IN  /\ NpAdvance("choice", probs, chosen_index)
                /\ remaining_languages' = remaining
                /\ selected_languages' = Append(selected_languages, selected_lang)
                /\ probs' = DeleteAt(AdjustProbs(probs, remaining, selected_lang, affinities),
                                     chosen_index)
                /\ draws' = draws + 1
                /\ last_draw' = [chosen_index |-> chosen_index, selected_lang |-> selected_lang,
                                 remaining |-> remaining_languages, probs |-> probs]
                /\ languages' = CallerList(languages, remaining)
                /\ UNCHANGED <<pc, error>>
    /\ UNCHANGED <<caller, gen_vars, gen_locals, base_probs, affinities, num_languages, run,
                   first_run>>
    /\ UNCHANGED <<crawler_vars, transform_vars>>

\* Line 183: return selected_languages, to a caller outside the module.
SelectReturn ==
    /\ pc = "select"
    /\ ~LoopContinues
    /\ caller = "select_languages"
    /\ pc' = "returned"
    /\ UNCHANGED <<caller, error, gen_vars, gen_locals, base_probs, affinities, sel_args,
                   sel_locals, run, np_vars, first_run>>
    /\ UNCHANGED <<crawler_vars, transform_vars>>

\* ---------------------------------------------------- generate_dummy_data

\* list(languages_prominence.keys())
Keys(d) == Catalog(Cardinality(DOMAIN d))

\* Base weights that are the raw prominences.
BaseProbsRaw(d) == d

\* Line 209: base_probs = {lang: prominence ** 0.5 ...}
BaseProbs(d) == [lang \in DOMAIN d |-> SqrtFix(d[lang])]

\* Line 217: the hard-coded Project_0.
\* Project_0 with the 10,000,000 bytes the comment of line 216 names.
Project0AsCommented == [i \in {0} |-> << <<[lang |-> "Lua", bytes |-> MaxRepoBytes]>> >>]

Project0 == [i \in {0} |-> << <<[lang |-> "Lua", bytes |-> Project0Bytes]>> >>]

\* Lines 206-217.
GenStart ==
    /\ pc = "start"
    /\ projects' = Project0
    /\ base_probs' = BaseProbs(languages_prominence)
    /\ p' = 0
    /\ pc' = "project"
    /\ UNCHANGED <<caller, error, gen_vars, r, num_repos, total_repo_bytes, alpha,
                   lang_proportions, affinities, sel_args, sel_locals, run, np_vars, first_run>>
    /\ UNCHANGED <<crawler_vars, transform_vars>>

\* A randint that includes its upper end, as random.randint does.
NpRandintInclusive(low, high) == low..high

\* The values np.random.randint(low, high) can return: low <= n < high.
NpRandint(low, high) == low..(high - 1)

\* Lines 219-222: the head of the projects loop, up to the draw of the number
\* of repositories; line 250 when the loop is over.
GenProject ==
    /\ pc = "project"
    /\ IF p + 1 > num_projects
       THEN /\ pc' = "returned"
            /\ UNCHANGED <<error, projects, p, r, num_repos, np_vars>>
       ELSE /\ p' = p + 1
            /\ projects' = [i \in DOMAIN projects \cup {p + 1} |->
                               IF i = p + 1 THEN <<>> ELSE projects[i]]
            /\ IF min_repos >= max_repos + 1
               THEN /\ Raise("ValueError: low >= high")
                    /\ UNCHANGED <<r, num_repos, np_vars>>
               ELSE \E n \in NpOutcomes("randint", <<min_repos, max_repos + 1>>,
                                        NpRandint(min_repos, max_repos + 1)) :
                    /\ NpAdvance("randint", <<min_repos, max_repos + 1>>, n)
                    /\ num_repos' = n
                    /\ r' = 0
                    /\ pc' = "repo"
                    /\ UNCHANGED error
    /\ UNCHANGED <<caller, gen_vars, total_repo_bytes, alpha, lang_proportions, base_probs,
                   affinities, sel_args, sel_locals, run, first_run>>
    /\ UNCHANGED <<crawler_vars, transform_vars>>

\* A support one past the catalog size: np.arange(1, total_languages + 2).
LanguageCountSupportPastEnd(total_languages) == 1..(total_languages + 1)

\* The values np.random.choice(x, p=probabilities) can return, x = 1..total:
\* the gamma density is positive at every x >= 1 when its scale is positive.
LanguageCountSupport(total_languages) == 1..total_languages

\* Lines 222-237: the head of the repositories loop, up to the call of
\* select_languages.
GenRepo ==
    /\ pc = "repo"
    /\ IF r + 1 > num_repos
       THEN /\ pc' = "project"
            /\ UNCHANGED <<error, projects, r, sel_args, sel_locals, np_vars>>
       ELSE LET total_languages == Cardinality(DOMAIN languages_prominence)
            IN  /\ r' = r + 1
                /\ projects' = [projects EXCEPT ![p] = Append(@, <<>>)]
                /\ IF total_languages = 0
                   THEN /\ Raise("ValueError: 'a' cannot be empty unless no samples are taken")
                        /\ UNCHANGED <<sel_args, sel_locals, np_vars>>
                   ELSE IF mean_languages <= 0
                   THEN \* gamma.pdf with scale <= 0 is NaN
                        /\ Raise("ValueError: probabilities contain NaN")
                        /\ UNCHANGED <<sel_args, sel_locals, np_vars>>
                   ELSE \E n \in NpOutcomes("choice_count", <<total_languages, mean_languages>>,
                                            LanguageCountSupport(total_languages)) :
                        /\ NpAdvance("choice_count", <<total_languages, mean_languages>>, n)
                        /\ EnterSelect(Keys(languages_prominence), n)
                        /\ pc' = "select"
                        /\ UNCHANGED error
    /\ UNCHANGED <<caller, gen_vars, p, num_repos, total_repo_bytes, alpha, lang_proportions,
                   base_probs, affinities, run, first_run>>
    /\ UNCHANGED <<crawler_vars, transform_vars>>

\* A share rounded up to the next integer: math.ceil(lang_bytes[idx]).
CeilBytes(num, den, total) ==
    IF 2 * num <= den THEN (total * num + den - 1) \div den
    ELSE total - ((total * (den - num)) \div den)

\* int(lang_bytes[idx]) for lang_bytes[idx] = (num/den) * total: the floor of
\* total * num / den, computed without products beyond 32 bits.
IntBytes(num, den, total) ==
    IF 2 * num <= den THEN (total * num) \div den
    ELSE total - ((total * (den - num) + den - 1) \div den)

\* Lines 246-248: the dict the loop over enumerate(selected_languages) fills.
AssignBytes(selected, proportions, total) ==
    [i \in 1..Len(selected) |->
        [lang |-> selected[i], bytes |-> IntBytes(proportions.num[i], proportions.den, total)]]

\* Lines 239-248: select_languages has returned; the byte budget is drawn and
\* split.
GenAllocate ==
    /\ pc = "select"
    /\ ~LoopContinues
    /\ caller = "generate_dummy_data"
    /\ \E total \in RepoBytesSamples :
        LET a == [i \in 1..Len(selected_languages) |-> base_probs[selected_languages[i]]]
        IN  /\ total_repo_bytes' = total
            /\ alpha' = a
            /\ IF \E i \in 1..Len(a) : a[i] <= 0
               THEN /\ Raise("ValueError: alpha <= 0")
                    /\ UNCHANGED <<projects, lang_proportions, np_vars>>
               ELSE \E props \in NpOutcomes("dirichlet", a, DirichletSamples(Len(a))) :
                    /\ NpAdvance("dirichlet", a, props)
                    /\ lang_proportions' = props
                    /\ projects' = [projects EXCEPT ![p][r] =
                                        AssignBytes(selected_languages, props, total)]
                    /\ pc' = "repo"
                    /\ UNCHANGED error
    /\ UNCHANGED <<caller, gen_vars, p, r, num_repos, base_probs, affinities, sel_args,
                   sel_locals, run, first_run>>
    /\ UNCHANGED <<crawler_vars, transform_vars>>

\* ---------------------------------------------------------- specifications

NoRun == [pc |-> "", error |-> "", projects |-> <<>>]

SelInit(langs, count) ==
    /\ languages = langs
    /\ num_languages = count
    /\ selected_languages = <<>>
    /\ remaining_languages = langs
    /\ probs = [i \in 1..Len(langs) |-> base_probs[langs[i]]]
    /\ draws = 0
    /\ last_draw = NoDraw

\* A call select_languages(languages, base_probs, num_languages, affinities).
InitSel ==
    /\ pc = "select"
    /\ caller = "select_languages"
    /\ error = ""
    /\ num_projects = 0 /\ min_repos = 0 /\ max_repos = 0 /\ mean_languages = 0
    /\ languages_prominence = <<>>
    /\ projects = <<>> /\ p = 0 /\ r = 0 /\ num_repos = 0
    /\ total_repo_bytes = 0 /\ alpha = <<>> /\ lang_proportions = NoProportions
    /\ \E n \in 0..MaxLangs :
        /\ base_probs \in [Range(Catalog(n)) -> WeightValues]
        /\ affinities \in AffinityTables(Range(Catalog(n)))
        /\ \E count \in 0..(n + 1) : SelInit(Catalog(n), count)
    /\ run = 0 /\ np_tape = <<>> /\ np_pos = 0 /\ first_run = NoRun
    /\ NoCrawler /\ NoTransform

NextSel == SelectDraw \/ SelectReturn

SpecSel == InitSel /\ [][NextSel]_vars

\* The affinity table of the module, cut to the names of a catalog.
ModuleAffinities(names) ==
    LET f == [pr \in {<<"A", "B">>, <<"B", "A">>} \cap (names \X names) |->
                 IF pr[1] = "A" THEN 5 ELSE 0 - 5]
    IN  AffinityTable(f)

Positive(n) == IF n > 0 THEN n ELSE 0

\* A call generate_dummy_data(num_projects, min_repos, max_repos,
\* mean_languages, languages_prominence).
GenInit ==
    /\ pc = "start"
    /\ caller = "generate_dummy_data"
    /\ error = ""
    /\ num_projects \in (0 - 1)..MaxProjects
    /\ min_repos \in 0..MaxRepos
    /\ max_repos \in 0..MaxRepos
    /\ mean_languages \in MeanValues
    /\ \E n \in 0..MaxLangs :
        /\ n + Positive(num_projects) * max_repos <= MaxSize
        /\ languages_prominence \in [Range(Catalog(n)) -> ProminenceValues]
        /\ affinities = ModuleAffinities(Range(Catalog(n)))
    /\ projects = <<>> /\ p = 0 /\ r = 0 /\ num_repos = 0
    /\ total_repo_bytes = 0 /\ alpha = <<>> /\ lang_proportions = NoProportions
    /\ base_probs = <<>>
    /\ languages = <<>> /\ num_languages = 0
    /\ selected_languages = <<>> /\ remaining_languages = <<>> /\ probs = <<>>
    /\ draws = 0 /\ last_draw = NoDraw
    /\ np_tape = <<>> /\ np_pos = 0 /\ first_run = NoRun
    /\ NoCrawler /\ NoTransform

Init == GenInit /\ run = 0

Next == GenStart \/ GenProject \/ GenRepo \/ SelectDraw \/ GenAllocate

Spec == Init /\ [][Next]_vars

\* A second process: the module is imported again, np.random.seed(42) runs
\* again, and generate_dummy_data is called with the same arguments.
SecondRun ==
    /\ run = 1
    /\ pc \in {"returned", "raised"}
    /\ first_run' = [pc |-> pc, error |-> error, projects |-> projects]
    /\ run' = 2
    /\ np_pos' = 0
    /\ pc' = "start"
    /\ error' = ""
    /\ projects' = <<>> /\ p' = 0 /\ r' = 0 /\ num_repos' = 0
    /\ total_repo_bytes' = 0 /\ alpha' = <<>> /\ lang_proportions' = NoProportions
    /\ base_probs' = <<>>
    /\ languages' = <<>> /\ num_languages' = 0
    /\ selected_languages' = <<>> /\ remaining_languages' = <<>> /\ probs' = <<>>
    /\ draws' = 0 /\ last_draw' = NoDraw
    /\ UNCHANGED <<caller, gen_vars, affinities, np_tape>>
    /\ UNCHANGED <<crawler_vars, transform_vars>>

InitTwoRuns == GenInit /\ run = 1

NextTwoRuns == GenStart \/ GenProject \/ GenRepo \/ SelectDraw \/ GenAllocate \/ SecondRun

SpecTwoRuns == InitTwoRuns /\ [][NextTwoRuns]_vars

\* ------------------------------------- GitHubRepositoryInfoExtractor
\* tribal_knowledge/repo_crawler.py.  The main thread runs
\*     with GitHubRepositoryInfoExtractor(token, max_workers) as extractor:
\*         extractor.fetch_repository_details(repos, details_spec)   (any number)
\* and may call fetch_repository_details again after the block.  The pool's
\* threads run _fetch_details concurrently with it.

\* Calls of fetch_repository_details per extractor.
MaxCalls == 2

\* Futures submitted to one pool.
MaxSubmits == 3

\* Largest max_workers.
MaxWorkers == 2

\* Full names of repositories.
RepoNames == {"apache/a", "apache/b"}

\* The lists of at most n names, repetitions included.
RepoLists(n) == UNION {[1..k -> RepoNames] : k \in 0..n}

\* The generator is not run.
NoGenerator ==
    /\ pc = "" /\ caller = "" /\ error = ""
    /\ num_projects = 0 /\ min_repos = 0 /\ max_repos = 0 /\ mean_languages = 0
    /\ languages_prominence = <<>>
    /\ projects = <<>> /\ p = 0 /\ r = 0 /\ num_repos = 0
    /\ total_repo_bytes = 0 /\ alpha = <<>> /\ lang_proportions = NoProportions
    /\ languages = <<>> /\ base_probs = <<>> /\ num_languages = 0 /\ affinities = <<>>
    /\ selected_languages = <<>> /\ remaining_languages = <<>> /\ probs = <<>>
    /\ draws = 0 /\ last_draw = NoDraw
    /\ run = 0 /\ np_tape = <<>> /\ np_pos = 0 /\ first_run = NoRun

\* Lines 270-281 and 371-378: __init__ and __enter__; the body of the with
\* block is entered with a fresh pool and an empty repository_details.
InitCrawler ==
    /\ NoGenerator
    /\ main = "body" /\ exc = ""
    /\ shutdown = FALSE
    /\ max_workers \in 1..MaxWorkers
    /\ futures = <<>>
    /\ future_to_repo = {} /\ yielded = <<>> /\ repos = <<>> /\ calls = 0 /\ returns = 0
    /\ repository_details = <<>>
    /\ NoTransform

\* Lines 299-325: _fetch_details returns the name it was given and the data
\* GitHub answered to this worker (response names the answer).
FetchDetails(repo_full_name, response) == <<repo_full_name, response>>

\* executor.submit: a new pending future for _fetch_details(repo, details_spec).
Submit(repo) == [repo |-> repo, state |-> "pending", raised |-> FALSE, result |-> <<>>]

Running == {i \in 1..Len(futures) : futures[i].state = "running"}

Pending == {i \in 1..Len(futures) : futures[i].state = "pending"}

\* Lines 340-346 (the call and the submissions of the dict comprehension).
\* submit raises RuntimeError once the pool is shut down; with an empty repos
\* list nothing is submitted.
FetchCall ==
    /\ main \in {"body", "exited"}
    /\ calls < MaxCalls
    /\ \E arg \in RepoLists(MaxSubmits - Len(futures)) :
        /\ repos' = arg
        /\ calls' = calls + 1
        /\ IF shutdown /\ arg # <<>>
           THEN /\ exc' = "RuntimeError: cannot schedule new futures after shutdown"
                /\ UNCHANGED <<main, futures, future_to_repo, yielded>>
           ELSE /\ futures' = futures \o [k \in 1..Len(arg) |-> Submit(arg[k])]
                /\ future_to_repo' = (Len(futures) + 1)..(Len(futures) + Len(arg))
                /\ yielded' = <<>>
                /\ main' = "collect"
                /\ UNCHANGED exc
    /\ UNCHANGED <<shutdown, max_workers, returns, repository_details, generator_vars,
                   transform_vars>>

\* A thread of the pool takes the oldest queued work item; at most
\* max_workers threads exist (line 280).
WorkerStart ==
    /\ Pending # {}
    /\ Cardinality(Running) < max_workers
    /\ LET i == CHOOSE j \in Pending : \A k \in Pending : j <= k
       IN  futures' = [futures EXCEPT ![i].state = "running"]
    /\ UNCHANGED <<main, exc, shutdown, max_workers, call_vars, repository_details,
                   generator_vars, transform_vars>>

\* _fetch_details ends in a worker thread: it returns its pair or raises
\* (a GitHub error), and the future is done.
WorkerFinish ==
    /\ \E i \in Running : \E fails \in BOOLEAN :
        futures' = [futures EXCEPT ![i] =
                        [repo   |-> @.repo,
                         state  |-> "done",
                         raised |-> fails,
                         result |-> IF fails THEN <<>> ELSE FetchDetails(@.repo, i)]]
    /\ UNCHANGED <<main, exc, shutdown, max_workers, call_vars, repository_details,
                   generator_vars, transform_vars>>

\* as_completed yields each future of the call once, when it is done.
AsCompleted == {i \in future_to_repo \ Range(yielded) : futures[i].state = "done"}

\* The loop ends after the first future as_completed yields.
AsCompletedFirstOnly == yielded # <<>> \/ future_to_repo = {}

\* The iterator as_completed(future_to_repo) is exhausted.
AsCompletedExhausted == Range(yielded) = future_to_repo

\* Lines 355-359: one iteration of the loop over as_completed.  future.result()
\* re-raises what the worker raised, and the exception leaves the with block.
FetchCollect ==
    /\ main = "collect"
    /\ \E future \in AsCompleted :
        /\ yielded' = Append(yielded, future)
        /\ IF futures[future].raised
           THEN /\ exc' = "exception of _fetch_details"
                /\ main' = "unwinding"
                /\ UNCHANGED repository_details
           ELSE LET repo      == futures[future].result[1]
                    repo_data == futures[future].result[2]
                IN  /\ repository_details' =
                           [n \in DOMAIN repository_details \cup {repo} |->
                               IF n = repo THEN repo_data ELSE repository_details[n]]
                    /\ UNCHANGED <<main, exc>>
    /\ UNCHANGED <<pool_vars, future_to_repo, repos, calls, returns, generator_vars,
                   transform_vars>>

\* Line 363: return self.repository_details.
FetchReturn ==
    /\ main = "collect"
    /\ AsCompletedExhausted
    /\ main' = "body"
    /\ returns' = returns + 1
    /\ UNCHANGED <<exc, pool_vars, future_to_repo, yielded, repos, calls, repository_details,
                   generator_vars, transform_vars>>

\* A statement of the with block raises.
BodyRaise ==
    /\ main = "body"
    /\ exc' = "exception in the with block"
    /\ main' = "unwinding"
    /\ UNCHANGED <<pool_vars, call_vars, repository_details, generator_vars, transform_vars>>

\* Lines 380-389 and 365-369: the block is left, normally or by an exception;
\* __exit__ calls close, which calls executor.shutdown(wait=True).  The flag is
\* set at once; queued work items are still run.
Exit ==
    /\ main \in {"body", "unwinding"}
    /\ shutdown' = TRUE
    /\ main' = "exit"
    /\ UNCHANGED <<exc, max_workers, futures, call_vars, repository_details, generator_vars,
                   transform_vars>>

\* shutdown(wait=False): returns without joining the threads.
JoinedNoWait == TRUE

\* shutdown(wait=True) joins the pool's threads: it returns when no work item
\* is queued or running.
Joined == \A i \in 1..Len(futures) : futures[i].state = "done"

\* shutdown returns, __exit__ returns None and the with statement is left (an
\* exception in flight propagates).
ExitDone ==
    /\ main = "exit"
    /\ Joined
    /\ main' = "exited"
    /\ UNCHANGED <<exc, pool_vars, call_vars, repository_details, generator_vars, transform_vars>>

NextCrawler ==
    FetchCall \/ WorkerStart \/ WorkerFinish \/ FetchCollect \/ FetchReturn \/ BodyRaise
        \/ Exit \/ ExitDone

SpecCrawler == InitCrawler /\ [][NextCrawler]_vars

\* ------------------------------------------- PandasOutputFormat.transform
\* tribal_knowledge/repo_crawler.py, lines 26-83.  A str is the sequence of
\* its pieces, "/" being a piece of its own; a dict is the sequence of its
\* items <<key, value>> in insertion order.

\* Repositories in the results argument.
MaxRows == 2

\* Full names: "apache/a", "apache/.github", "b/a", and "a" (no owner).
FullNames == {<<"apache", "/", "a">>, <<"apache", "/", ".github">>, <<"b", "/", "a">>, <<"a">>}

\* A value that is not a dict.
Scalar(text) == [dict |-> FALSE, v |-> text, items |-> <<>>]

\* A dict value, as get_languages returns.
DictValue(items) == [dict |-> TRUE, v |-> <<>>, items |-> items]

\* Details of a repository, as _fetch_details builds them.
DetailsSamples ==
    { <<>>,
      << <<"stargazers_count", Scalar(<<"7">>)>> >>,
      << <<"get_languages", DictValue(<<>>)>> >>,
      << <<"stargazers_count", Scalar(<<"7">>)>>,
         <<"get_languages", DictValue(<< <<"Python", <<"10">> >>, <<"Lua", <<"5">> >> >>)>> >>,
      << <<"Owner", Scalar(<<"x">>)>>, <<"forks_count", Scalar(<<"2">>)>> >> }

\* The dicts of at most n repositories: the keys of a dict are distinct.
ResultSamples(n) ==
    {res \in UNION {[1..k -> FullNames \X DetailsSamples] : k \in 0..n} :
        \A i, j \in 1..Len(res) : i # j => res[i][1] # res[j][1]}

\* str.split("/")
RECURSIVE Split(_)
Split(str) ==
    IF \A i \in 1..Len(str) : str[i] # "/"
    THEN <<str>>
    ELSE LET i == CHOOSE j \in 1..Len(str) :
                      str[j] = "/" /\ \A k \in 1..(j - 1) : str[k] # "/"
         IN  <<SubSeq(str, 1, i - 1)>> \o Split(SubSeq(str, i + 1, Len(str)))

HasKey(dict, key) == \E i \in 1..Len(dict) : dict[i][1] = key

Get(dict, key) == dict[CHOOSE i \in 1..Len(dict) : dict[i][1] = key][2]

\* dict.update({key: value}): a present key keeps its place.
Update(dict, key, value) ==
    IF HasKey(dict, key)
    THEN [i \in 1..Len(dict) |-> IF dict[i][1] = key THEN <<key, value>> ELSE dict[i]]
    ELSE Append(dict, <<key, value>>)

IsDict(kv) == kv[2].dict

NotDict(kv) == ~kv[2].dict

\* Lines 59-62: the attributes whose value is not a dict, then Owner and
\* Repository.
SharedAttributes(repo_details, owner, repo_name) ==
    LET kept   == SelectSeq(repo_details, NotDict)
        shared == [i \in 1..Len(kept) |-> <<kept[i][1], kept[i][2].v>>]
    IN  Update(Update(shared, "Owner", owner), "Repository", repo_name)

\* Lines 68-73: a row for every item of every dict-valued attribute.
RECURSIVE NestedRows(_, _)
NestedRows(shared_attributes, repo_details) ==
    IF repo_details = <<>>
    THEN <<>>
    ELSE LET attribute     == Head(repo_details)[1]
             nested_values == Head(repo_details)[2].items
             rows == IF IsDict(Head(repo_details))
                     THEN [n \in 1..Len(nested_values) |->
                              Update(Update(shared_attributes, attribute,
                                            <<nested_values[n][1]>>),
                                     "Value", nested_values[n][2])]
                     ELSE <<>>
         IN  rows \o NestedRows(shared_attributes, Tail(repo_details))

\* Lines 59-78: the rows one repository adds to data_rows.
RowsOf(repo_details, owner, repo_name, nested) ==
    LET shared_attributes == SharedAttributes(repo_details, owner, repo_name)
    IN  IF nested /\ (\E i \in 1..Len(repo_details) : IsDict(repo_details[i]))
        THEN NestedRows(shared_attributes, repo_details)
        ELSE <<shared_attributes>>

\* Lines 54-78: one iteration of the loop over results.items().
TransformRepo ==
    /\ transform_pc = "loop"
    /\ item < Len(results)
    /\ LET full_repo_name == results[item + 1][1]
           repo_details   == results[item + 1][2]
           parts          == Split(full_repo_name)
       IN  IF Len(parts) # 2
           THEN \* owner, repo_name = full_repo_name.split("/")
                /\ transform_pc' = "raised"
                /\ transform_error' = "ValueError: unpack"
                /\ UNCHANGED <<item, data_rows>>
           ELSE /\ item' = item + 1
                /\ data_rows' = IF parts[2] = <<".github">>
                                THEN data_rows
                                ELSE data_rows \o RowsOf(repo_details, parts[1], parts[2],
                                                         nested_row)
                /\ UNCHANGED <<transform_pc, transform_error>>
    /\ UNCHANGED <<nested_row, results, df, generator_vars, crawler_vars>>

\* A cell of a row that has no value for the column.
NaN == <<"NaN">>

RECURSIVE AppendNew(_, _)
AppendNew(columns, dict) ==
    IF dict = <<>>
    THEN columns
    ELSE AppendNew(IF Head(dict)[1] \in Range(columns)
                   THEN columns
                   ELSE Append(columns, Head(dict)[1]),
                   Tail(dict))

RECURSIVE ColumnsFrom(_, _)
ColumnsFrom(columns, rows) ==
    IF rows = <<>> THEN columns ELSE ColumnsFrom(AppendNew(columns, Head(rows)), Tail(rows))

\* pd.DataFrame(data_rows): the columns are the keys of the rows in order of
\* first appearance; a row without a key has NaN in that column.
DataFrame(rows) ==
    LET columns == ColumnsFrom(<<>>, rows)
    IN  [columns |-> columns,
         rows    |-> [i \in 1..Len(rows) |->
                        [c \in Range(columns) |->
                            IF HasKey(rows[i], c) THEN Get(rows[i], c) ELSE NaN]]]

NotOwnerRepository(col) == col \notin {"Owner", "Repository"}

\* Lines 80-83: the frame is built and its columns reordered.  df[cols] raises
\* KeyError when a label of cols is not a column, which is so for the frame
\* of an empty data_rows.
TransformFrame ==
    /\ transform_pc = "loop"
    /\ item = Len(results)
    /\ LET frame == DataFrame(data_rows)
           cols  == <<"Owner", "Repository">> \o SelectSeq(frame.columns, NotOwnerRepository)
       IN  IF Range(cols) \subseteq Range(frame.columns)
           THEN /\ df' = [columns |-> cols,
                          rows    |-> [i \in 1..Len(frame.rows) |->
                                         [c \in Range(cols) |-> frame.rows[i][c]]]]
                /\ transform_pc' = "returned"
                /\ UNCHANGED transform_error
           ELSE /\ transform_pc' = "raised"
                /\ transform_error' = "KeyError: ['Owner', 'Repository'] not in index"
                /\ UNCHANGED df
    /\ UNCHANGED <<nested_row, results, item, data_rows, generator_vars, crawler_vars>>

\* PandasOutputFormat(nested_row).transform(results) is called.
InitTransform ==
    /\ NoGenerator
    /\ NoCrawler
    /\ transform_pc = "loop" /\ transform_error = ""
    /\ nested_row \in BOOLEAN
    /\ results \in ResultSamples(MaxRows)
    /\ item = 0 /\ data_rows = <<>> /\ df = NoFrame

NextTransform == TransformRepo \/ TransformFrame

SpecTransform == InitTransform /\ [][NextTransform]_vars

\* ------------------------------------------------------------------ claims

\* The repository the generator has just filled: projects[p][r].
RepoDone == caller = "generate_dummy_data" /\ pc = "repo" /\ r >= 1

RECURSIVE SumBytes(_)
SumBytes(repo) == IF repo = <<>> THEN 0 ELSE Head(repo).bytes + SumBytes(Tail(repo))

\* C1: the byte counts of every generated repository sum to exactly the
\* byte budget drawn for it.
C1_SumEqualsBudget ==
    RepoDone => SumBytes(projects[p][r]) = total_repo_bytes

\* The floor of the specification's allocate_bytes; the smallest floor that
\* asks for anything.
min_bytes_per_language == 1

\* C2: the allocation of every generated repository is non-empty and every
\* byte count in it is at least min_bytes_per_language.
C2_NonEmptyAboveFloor ==
    RepoDone =>
        /\ Len(projects[p][r]) >= 1
        /\ \A i \in 1..Len(projects[p][r]) : projects[p][r][i].bytes >= min_bytes_per_language

SelectReturned == caller = "select_languages" /\ pc = "returned"

\* C3: whenever select_languages returns, the result has exactly
\* num_languages entries, all of them catalog languages and pairwise
\* distinct; with num_languages equal to the catalog size it holds every
\* catalog language.
C3_DistinctCatalogLanguages ==
    SelectReturned =>
        /\ Len(selected_languages) = num_languages
        /\ Range(selected_languages) \subseteq Range(languages)
        /\ Cardinality(Range(selected_languages)) = Len(selected_languages)
        /\ num_languages = Len(languages) => Range(selected_languages) = Range(languages)

C3_Witness ==
    /\ SelectReturned
    /\ num_languages = Len(languages)
    /\ Len(selected_languages) >= 2

\* C4: when, after a draw, every remaining language has working weight 0,
\* the next draw does not end in an exception.
C4_ZeroWeightsStillDraw ==
    ~ /\ pc = "raised"
      /\ draws >= 1
      /\ remaining_languages # <<>>
      /\ SumSeq(probs) = 0

\* The position of a language in a list of distinct languages.
IndexOf(s, x) == CHOOSE i \in 1..Len(s) : s[i] = x

\* C5: after a draw of S, every remaining language L has the weight
\* clamp(w_L + affinities[S][L]) when that entry exists, for w_L its own
\* weight before the draw, and the weight w_L when it does not.
C5_AdjustmentOnOwnWeight ==
    draws >= 1 =>
        \A j \in 1..Len(remaining_languages) :
            LET S   == last_draw.selected_lang
                L   == remaining_languages[j]
                w_L == last_draw.probs[IndexOf(last_draw.remaining, L)]
            IN  probs[j] = IF S \in DOMAIN affinities /\ L \in DOMAIN affinities[S]
                           THEN Clamp(w_L + affinities[S][L])
                           ELSE w_L

\* C6: two runs of the generator with the same arguments under the same
\* seed return the same corpus.
C6_RunsIdentical ==
    (run = 2 /\ pc = "returned") =>
        /\ first_run.pc = "returned"
        /\ projects = first_run.projects

\* C7: the number of languages drawn for a repository lies in
\* 1..total_language_count, and the repository gets that many languages.
C7_LanguageCountInRange ==
    /\ (caller = "generate_dummy_data" /\ pc = "select") =>
           num_languages \in 1..Cardinality(DOMAIN languages_prominence)
    /\ RepoDone =>
           /\ num_languages \in 1..Cardinality(DOMAIN languages_prominence)
           /\ Cardinality({projects[p][r][i].lang : i \in 1..Len(projects[p][r])}) = num_languages

C7_Witness ==
    /\ RepoDone
    /\ num_languages = Cardinality(DOMAIN languages_prominence)
    /\ num_languages >= 2

\* C8: select_languages called with num_languages greater than the catalog
\* size never returns: it draws until the catalog is used up and then raises.
C8_CountAboveCatalogRaises ==
    (caller = "select_languages" /\ num_languages > Len(languages)) =>
        /\ pc \in {"select", "raised"}
        /\ pc = "select" => (LoopContinues /\ draws <= Len(languages))
        /\ pc = "raised" => error # ""

C8_Witness ==
    /\ caller = "select_languages"
    /\ num_languages > Len(languages)
    /\ pc = "raised"
    /\ draws = Len(languages)
    /\ Len(languages) >= 2

\* C9: select_languages called with num_languages = 0 fails with an error
\* instead of returning.
C9_ZeroCountRaises ==
    (caller = "select_languages" /\ num_languages = 0) => pc # "returned"

InvalidConfiguration ==
    \/ num_projects <= 0
    \/ DOMAIN languages_prominence = {}
    \/ min_repos > max_repos

\* C10: generate_dummy_data called with an invalid configuration ends in an
\* error and returns no corpus.
C10_InvalidConfigurationRaises ==
    (caller = "generate_dummy_data" /\ InvalidConfiguration) => pc # "returned"

\* C11: every byte count stored in a generated repository is a positive
\* integer.
C11_CountsPositive ==
    RepoDone => \A i \in 1..Len(projects[p][r]) : projects[p][r][i].bytes > 0

\* C12: no step of a generate_dummy_data run, the select_languages calls in
\* it included, changes the prominence catalog, the affinity table, the base
\* weights once they are derived, or the language list a select_languages
\* call was given.
C12_InputsNotMutated ==
    [][/\ languages_prominence' = languages_prominence
       /\ affinities' = affinities
       /\ pc # "start" => base_probs' = base_probs
       /\ pc = "select" => languages' = languages]_vars

C12_Witness ==
    /\ caller = "generate_dummy_data"
    /\ pc = "returned"
    /\ \E q \in DOMAIN projects \ {0} : \E k \in 1..Len(projects[q]) : Len(projects[q][k]) >= 2
    /\ base_probs = BaseProbs(languages_prominence)
    /\ languages = Keys(languages_prominence)

\* C13: the returned corpus holds, for every p in 1..num_projects, a project
\* whose repositories are Repo_1..Repo_n with min_repos <= n <= max_repos.
C13_RepoCountInRange ==
    (caller = "generate_dummy_data" /\ pc = "returned") =>
        \A q \in 1..num_projects :
            /\ q \in DOMAIN projects
            /\ Len(projects[q]) \in min_repos..max_repos

C13_Witness ==
    /\ caller = "generate_dummy_data"
    /\ pc = "returned"
    /\ min_repos < max_repos
    /\ max_repos >= 2
    /\ \E q \in 1..num_projects : Len(projects[q]) = max_repos

\* The weight a remaining language had before the latest draw.
WeightBefore(L) == last_draw.probs[IndexOf(last_draw.remaining, L)]

HasAffinity(S, L) == S \in DOMAIN affinities /\ L \in DOMAIN affinities[S]

\* C17: a remaining language with no entry affinities[S][L] for the language
\* S just drawn keeps the working weight it had before the draw.
C17_NoEntryKeepsWeight ==
    draws >= 1 =>
        \A j \in 1..Len(remaining_languages) :
            ~HasAffinity(last_draw.selected_lang, remaining_languages[j]) =>
                probs[j] = WeightBefore(remaining_languages[j])

\* C18: at the start of every iteration of the loop of select_languages the
\* weight vector has one entry per language not yet selected, and every entry
\* is non-negative.
C18_WeightsAlignedNonNegative ==
    (caller = "select_languages" /\ pc = "select") =>
        /\ Len(probs) = Len(remaining_languages)
        /\ Range(remaining_languages) = Range(languages) \ Range(selected_languages)
        /\ Len(remaining_languages) = Len(languages) - draws
        /\ \A i \in 1..Len(probs) : probs[i] >= 0

C18_Witness ==
    /\ caller = "select_languages"
    /\ pc = "select"
    /\ draws >= 1
    /\ LoopContinues
    /\ Len(remaining_languages) >= 2
    /\ \E j \in 1..Len(probs) : probs[j] = 0 /\ base_probs[remaining_languages[j]] > 0

\* C19: the concentration vector of the Dirichlet draw holds, for each
\* language of the repository in selection order, the square root of its
\* prominence.
C19_AlphaIsSqrtProminence ==
    RepoDone =>
        /\ Len(alpha) = Len(projects[p][r])
        /\ \A i \in 1..Len(alpha) :
               alpha[i] = SqrtFix(languages_prominence[projects[p][r][i].lang])

C19_Witness ==
    /\ RepoDone
    /\ Len(alpha) >= 2
    /\ \E i \in 1..Len(alpha) : alpha[i] > One
    /\ \E i \in 1..Len(alpha) : alpha[i] < One

\* The slot of the weight array that held entry i before np.delete removed
\* the entry chosen_index.
SlotAfterDelete(i) == IF i < last_draw.chosen_index THEN i ELSE i - 1

\* C20: a positive affinity score never lowers the weight it is applied to.
\* The score for the language at position i of the shortened list is applied
\* to entry i of the weight array; the entry at chosen_index is deleted.
C20_PositiveAffinityNeverLowers ==
    draws >= 1 =>
        \A i \in 1..Len(remaining_languages) :
            LET S == last_draw.selected_lang
                L == remaining_languages[i]
            IN  (/\ HasAffinity(S, L)
                 /\ affinities[S][L] > 0
                 /\ i # last_draw.chosen_index) =>
                    probs[SlotAfterDelete(i)] >= last_draw.probs[i]

\* The latest call of fetch_repository_details has returned to the with block.
FetchReturned == main = "body" /\ calls >= 1 /\ returns = calls

\* C14: when fetch_repository_details returns, every worker it submitted has
\* completed, and for every requested repository the mapping holds, under
\* the repository's full name, the data a worker of this call fetched for
\* that repository, in whatever order the workers finished.
C14_ReturnsDataOfOwnWorkers ==
    FetchReturned =>
        /\ \A i \in future_to_repo : futures[i].state = "done" /\ ~futures[i].raised
        /\ \A k \in 1..Len(repos) :
            /\ repos[k] \in DOMAIN repository_details
            /\ \E i \in future_to_repo :
                /\ futures[i].repo = repos[k]
                /\ futures[i].result = <<repos[k], repository_details[repos[k]]>>

\* A call for two repositories whose workers finished against the order of
\* submission has returned.
C14_Witness ==
    /\ FetchReturned
    /\ Len(repos) = 2
    /\ repos[1] # repos[2]
    /\ Len(yielded) = 2
    /\ yielded[1] > yielded[2]

\* C15: once the with statement is left, after a normal end of the block or
\* after an exception, the pool is shut down and every future it was given
\* is done; and once the pool is shut down no future is added to it.
C15_ExitShutsDownAfterWaiting ==
    /\ [](main = "exited" =>
            /\ shutdown
            /\ \A i \in 1..Len(futures) : futures[i].state = "done")
    /\ [][shutdown => Len(futures') = Len(futures)]_vars

\* The block was left by an exception while a future of the call had not been
\* collected, and a later call was refused.
C15_Witness ==
    /\ main = "exited"
    /\ exc = "RuntimeError: cannot schedule new futures after shutdown"
    /\ repos # <<>>
    /\ Len(yielded) < Cardinality(future_to_repo)

\* Every key of results has the form "{Owner}/{Repository}".
WellFormedNames == \A i \in 1..Len(results) : Len(Split(results[i][1])) = 2

NotGithub(entry) == Split(entry[1])[2] # <<".github">>

\* C16: with nested_row=False, transform returns a frame with exactly one row
\* per repository of results whose name is not ".github", in order; the row
\* has the repository's Owner and Repository and, in every other column, the
\* repository's own non-dict attribute of that name or no value.
C16_OneRowPerRepository ==
    (transform_pc \in {"returned", "raised"} /\ ~nested_row /\ WellFormedNames) =>
        /\ transform_pc = "returned"
        /\ LET kept == SelectSeq(results, NotGithub)
           IN  /\ Len(df.rows) = Len(kept)
               /\ \A i \in 1..Len(kept) :
                    LET parts   == Split(kept[i][1])
                        details == kept[i][2]
                    IN  /\ df.rows[i]["Owner"] = parts[1]
                        /\ df.rows[i]["Repository"] = parts[2]
                        /\ \A c \in Range(df.columns) \ {"Owner", "Repository"} :
                            df.rows[i][c] =
                                IF HasKey(details, c) /\ ~Get(details, c).dict
                                THEN Get(details, c).v
                                ELSE NaN

\* C21: for every generated repository with k languages and budget T, the
\* sum S of the stored byte counts satisfies T - k < S <= T.
C21_TruncationLosesLessThanK ==
    RepoDone =>
        LET k == Len(projects[p][r])
            S == SumBytes(projects[p][r])
        IN  total_repo_bytes - k < S /\ S <= total_repo_bytes

\* A repository of several languages whose counts lost bytes to truncation.
C21_Witness ==
    /\ RepoDone
    /\ Len(projects[p][r]) >= 2
    /\ SumBytes(projects[p][r]) < total_repo_bytes

C23_OnlyRequestedRepositories ==
    FetchReturned => DOMAIN repository_details \subseteq Range(repos)

\* The row a repository of results has in rows, if any: the rows carrying its
\* Owner and Repository.
RowsFor(rows, full_repo_name) ==
    {i \in 1..Len(rows) :
        /\ Get(rows[i], "Owner") = Split(full_repo_name)[1]
        /\ Get(rows[i], "Repository") = Split(full_repo_name)[2]}

\* C24: with nested_row=True, when the loop of transform is over every
\* repository of results whose name is not ".github" has at least one row in
\* data_rows.
C24_NestedRowPerRepository ==
    (transform_pc \in {"returned", "raised"} /\ nested_row /\ WellFormedNames) =>
        \A i \in 1..Len(results) :
            NotGithub(results[i]) => RowsFor(data_rows, results[i][1]) # {}

====
